---- MODULE Spec2Model ----
(***************************************************************************)
(* Dtrust: anchoring of document hashes on the Hedera Consensus Service    *)
(* and their verification.  The model follows the server sources:          *)
(*   api/middleware/auth.middleware.ts      apiKeyAuth                     *)
(*   api/controllers/anchor.controller.ts   anchorDocument                 *)
(*   api/controllers/verify.controller.ts   verifyDocument                 *)
(*   services/did.service.ts                verifySignature                *)
(*   services/hedera.service.ts             submitHashToHCS                *)
(*   services/mirror.service.ts             findMessageByHash              *)
(*   services/document.service.ts           findProofByHash, ...           *)
(*   services/registry.service.ts           isTrustedIssuer                *)
(*   api/controllers/auth.controller.ts     signup                         *)
(*   api/controllers/organization.controller.ts  createOrganizationDid     *)
(*   api/controllers/did.controller.ts      submitDidCreation              *)
(*   contracts/IssuerRegistry.sol           addIssuer, removeIssuer, ...   *)
(* Every await of a handler is one step of the request, so that requests   *)
(* interleave exactly where the event loop can interleave them.            *)
(***************************************************************************)
EXTENDS Integers, Sequences, FiniteSets, TLC

VARIABLES
    organizations,  \* Organization table: organization id -> did
    didDocuments,   \* what the DID network resolves each did to, now
    hcsLog,         \* the HCS topic: the messages that reached consensus
    documentProofs, \* DocumentProof table (unique index on documentHash)
    anchors,        \* anchor requests, in order of arrival
    verifies,       \* verify requests, in order of arrival
    serviceCall,    \* the last call made to a service on its own, outside a request
    identityRequests, \* signup and DID requests, in order of arrival
    issuerRegistry  \* the IssuerRegistry contract: owner, isTrusted and its last call

vars == <<organizations, didDocuments, hcsLog, documentProofs, anchors, verifies,
          serviceCall, identityRequests, issuerRegistry>>

---------------------------------------------------------------------------
(* Bounds of the model *)

MaxRequests == 2    \* requests (anchor + verify) that arrive in a behaviour
MaxTraffic == 1     \* bursts of foreign messages on the topic

---------------------------------------------------------------------------
(* Program constants *)

MirrorPageLimit == 100   \* "?limit=100&order=desc"
HashBytes == 32          \* hashBytes.length !== 32
SignatureBytes == 64     \* signatureBytes.length !== 64
HashHexChars == 64       \* /^[a-f0-9]{64}$/i

---------------------------------------------------------------------------
(* Values *)

\* Optional values: <<>> is null/undefined, <<v>> is v.
Null == <<>>
Some(v) == <<v>>
Get(o) == o[1]

\* A hex-encoded string is described by what the code looks at: the bytes
\* its leading run of hex digits spells ("content"), the length of that run
\* ("hexChars") and the length of the whole string ("len"); "flips" are the
\* bits in which the bytes differ from those "content" names.
HexString(content, hexChars, len) ==
    [content |-> content, hexChars |-> hexChars, len |-> len, flips |-> {}]

H1 == HexString("h1", 64, 64)        \* a SHA-256 digest
HShort == HexString("h0", 6, 6)      \* "abc123"
EmptyString == HexString("", 0, 0)

\* Buffer.from(s, "hex"): decodes pairs of hex digits up to the first
\* character that is not one.
BufferFromHex(s) ==
    [content |-> s.content, length |-> s.hexChars \div 2, flips |-> s.flips]

\* /^[a-f0-9]{64}$/i.test(s)
IsSha256Hex(s) == s.hexChars = HashHexChars /\ s.len = HashHexChars

\* Ed25519 keys: the key pair k has public key k and signs with k.
Keys == {"kA", "kB", "kC", "kA2"}

\* The hex string of the Ed25519 signature of bytes b under key k.
SignHex(k, b) ==
    [content |-> [signer |-> k, over |-> b], hexChars |-> 128, len |-> 128,
     flips |-> {}]

\* a check of the signer only
PublicKeyVerifySigner(publicKey, hashBytes, signatureBytes) ==
    signatureBytes.content.signer = publicKey

\* publicKey.verify(hashBytes, signatureBytes): the bytes are, bit for bit,
\* the signature of hashBytes under the private key of publicKey
PublicKeyVerify(publicKey, hashBytes, signatureBytes) ==
    /\ signatureBytes.flips = {}
    /\ signatureBytes.content.signer = publicKey
    /\ signatureBytes.content.over = hashBytes

\* The string with bit i of its bytes flipped
FlipBit(s, i) == [s EXCEPT !.flips = (@ \ {i}) \cup ({i} \ @)]

\* The first and the last bit of a hash and of a signature
HashBitPositions == {0, HashBytes * 8 - 1}
SignatureBitPositions == {0, SignatureBytes * 8 - 1}

\* DIDs
Did(scheme, id) == [scheme |-> scheme, id |-> id]
DidA == Did("did:hedera:", "A")
DidB == Did("did:hedera:", "B")
DidC == Did("did:hedera:", "C")     \* on the network, bound to no organization
DidWeb == Did("did:web:", "A")
NoDid == Did("", "")
HederaDids == {DidA, DidB, DidC}

\* did.startsWith("did:hedera:")
IsHederaDid(did) == did.scheme = "did:hedera:"

\* Verification methods of a DID document.
Ed25519Method(k) ==
    [type |-> "Ed25519VerificationKey2020", publicKeyMultibase |-> Some([wellFormed |-> TRUE, key |-> k])]
OtherMethod ==
    [type |-> "EcdsaSecp256k1VerificationKey2019", publicKeyMultibase |-> Null]
\* an Ed25519 method whose publicKeyMultibase KeysUtility cannot decode
MalformedMethod ==
    [type |-> "Ed25519VerificationKey2020",
     publicKeyMultibase |-> Some([wellFormed |-> FALSE, key |-> ""])]

OrgIds == {"orgA", "orgB"}
ApiKeys == {"keyA", "keyB"}

\* ApiKey table: key -> organization (absent keys are not in the domain)
apiKeyTable == [k \in ApiKeys |-> IF k = "keyA" THEN "orgA" ELSE "orgB"]

---------------------------------------------------------------------------
(* services/did.service.ts *)

\* The first verification method of the document that is an Ed25519 key with
\* a publicKeyMultibase; Null when the scan finds none.
RECURSIVE FindEd25519Method(_)
FindEd25519Method(methods) ==
    IF methods = <<>> THEN Null
    ELSE IF /\ Head(methods).type = "Ed25519VerificationKey2020"
            /\ Head(methods).publicKeyMultibase # Null
         THEN Head(methods).publicKeyMultibase
         ELSE FindEd25519Method(Tail(methods))

\* resolveDID(did) throws
Thrown == <<"throw", "resolveDID">>

\* Whether verifySignature reaches resolveDID(did), its one network call.
verifySignatureResolves(did, documentHashHex, signatureHex) ==
    /\ did # NoDid /\ documentHashHex.len > 0 /\ signatureHex.len > 0
    /\ IsHederaDid(did)

\* verifySignature without the check of the signature itself
verifySignatureUnchecked(did, documentHashHex, signatureHex, didDocument) ==
    /\ verifySignatureResolves(did, documentHashHex, signatureHex)
    /\ didDocument # Null /\ didDocument # Thrown
    /\ FindEd25519Method(Get(didDocument)) # Null

\* The try block of verifySignature, where didDocument is what
\* resolveDID(did) does in this call: Thrown, Null (no document) or
\* Some(verification methods).  "true"/"false" is the value it returns,
\* "throws" an exception that leaves the block.  KeysUtility.fromMultibase
\* throws for a malformed key, inside a try of its own that returns false.
verifySignatureTry(did, documentHashHex, signatureHex, didDocument) ==
    IF ~verifySignatureResolves(did, documentHashHex, signatureHex) THEN "false"
    ELSE IF didDocument = Thrown THEN "throws"
    ELSE IF didDocument = Null THEN "false"
    ELSE IF Len(Get(didDocument)) = 0 THEN "false"
    ELSE LET publicKeyString == FindEd25519Method(Get(didDocument)) IN
         IF publicKeyString = Null THEN "false"
         ELSE IF ~Get(publicKeyString).wellFormed THEN "false"
         ELSE LET publicKey == Get(publicKeyString).key
                  hashBytes == BufferFromHex(documentHashHex)
                  signatureBytes == BufferFromHex(signatureHex)
              IN  IF hashBytes.length # HashBytes THEN "false"
                  ELSE IF signatureBytes.length # SignatureBytes THEN "false"
                  ELSE IF PublicKeyVerify(publicKey, hashBytes, signatureBytes)
                       THEN "true" ELSE "false"

\* verifySignature without its outer catch
verifySignatureUncaught(did, documentHashHex, signatureHex, didDocument) ==
    verifySignatureTry(did, documentHashHex, signatureHex, didDocument)

\* How a call of verifySignature ends: the try block, and the catch that
\* turns every exception into false
verifySignatureOutcome(did, documentHashHex, signatureHex, didDocument) ==
    IF verifySignatureTry(did, documentHashHex, signatureHex, didDocument) = "throws"
    THEN "false"
    ELSE verifySignatureTry(did, documentHashHex, signatureHex, didDocument)

\* await verifySignature(did, documentHashHex, signatureHex)
verifySignature(did, documentHashHex, signatureHex, didDocument) ==
    verifySignatureOutcome(did, documentHashHex, signatureHex, didDocument) = "true"

\* a resolver that answers from the document it saw first
resolveDIDCached(did) ==
    {Null, Thrown}
    \cup (IF did = DidA
          THEN {Some(<<Ed25519Method("kA")>>)}
          ELSE IF did \in DOMAIN didDocuments THEN {Some(didDocuments[did])} ELSE {})

\* What resolveDID(did) can do now: answer the current document, answer
\* none, or throw.
resolveDID(did) ==
    {Null, Thrown}
    \cup (IF did \in DOMAIN didDocuments THEN {Some(didDocuments[did])} ELSE {})

---------------------------------------------------------------------------
(* services/document.service.ts *)

\* a lookup that never finds a row
findProofByHashMiss(documentHash) == Null

\* prisma.documentProof.findUnique({ where: { documentHash } })
findProofByHash(documentHash) ==
    IF \E row \in documentProofs : row.documentHash = documentHash
    THEN Some(CHOOSE row \in documentProofs : row.documentHash = documentHash)
    ELSE Null

\* a verify-side lookup that never finds a row
getProofByHashMiss(documentHash) == Null

getProofByHash(documentHash) == findProofByHash(documentHash)

\* an index without the unique constraint
UniqueViolationNever(documentHash) == FALSE

\* The unique index DocumentProof_documentHash_key rejects the insert.
UniqueViolation(documentHash) ==
    \E row \in documentProofs : row.documentHash = documentHash

\* a write that replaces the row of the hash
createDocumentProofUpsert(row) ==
    {p \in documentProofs : p.documentHash # row.documentHash} \cup {row}

\* The DocumentProof table after prisma.documentProof.create({ data }): the
\* row is inserted unless the unique index rejects it.
createDocumentProof(row) ==
    IF UniqueViolation(row.documentHash)
    THEN documentProofs
    ELSE documentProofs \cup {row}

\* a row that is stored under the empty hash
NewProofRowUnkeyed(id, proofData) ==
    [id |-> id,
     documentHash |-> EmptyString,
     hederaTransactionId |-> proofData.hederaTransactionId,
     consensusTimestamp |-> proofData.consensusTimestamp,
     issuerDid |-> proofData.issuerDid,
     createdAt |-> Cardinality(documentProofs) + 1]

\* The row prisma.documentProof.create inserts; id and createdAt are the
\* column defaults (a fresh id, the current time).
NewProofRow(id, proofData) ==
    [id |-> id,
     documentHash |-> proofData.documentHash,
     hederaTransactionId |-> proofData.hederaTransactionId,
     consensusTimestamp |-> proofData.consensusTimestamp,
     issuerDid |-> proofData.issuerDid,
     createdAt |-> Cardinality(documentProofs) + 1]

---------------------------------------------------------------------------
(* services/hedera.service.ts and the topic *)

\* The ProofMessage object { hash, did, signature }
ProofMessage(hash, did, signature) == [hash |-> hash, did |-> did, signature |-> signature]

\* a serializer that writes an empty signature
JSONStringifyUnsigned(hash, did, signature) ==
    [json |-> TRUE, hash |-> hash, did |-> did,
     signature |-> [signature EXCEPT !.hexChars = 0, !.len = 0]]

\* JSON.stringify({ hash, did, signature }): a text, which is JSON
JSONStringify(hash, did, signature) ==
    [json |-> TRUE, hash |-> hash, did |-> did, signature |-> signature]

\* A message that is not JSON
RawText == [json |-> FALSE]

\* A topic entry: "count" consecutive messages with the same payload.
TopicEntry(payload, count, by) == [payload |-> payload, count |-> count, by |-> by]

\* Number of messages on the topic
RECURSIVE TopicSize(_)
TopicSize(log) ==
    IF log = <<>> THEN 0 ELSE log[Len(log)].count + TopicSize(SubSeq(log, 1, Len(log) - 1))

\* What transaction.execute / getReceipt / getRecord can do:
\*   success       receipt SUCCESS and a consensus timestamp
\*   rejected      the receipt carries another status; nothing on the topic
\*   no_timestamp  SUCCESS, but the record has no consensus timestamp
\*   network       execute fails; nothing on the topic
\*   lost_ack      the message reached consensus, the receipt/record query fails
SubmitOutcomes == {"success", "rejected", "no_timestamp", "network", "lost_ack"}

\* whether the message is on the topic after that outcome
Landed(outcome) == outcome \in {"success", "no_timestamp", "lost_ack"}

\* the message of the cause alone, thrown on without the wrapping
submitErrorUnwrapped(outcome) == {}

\* The substrings the catch blocks look for, of the message of the Error
\* submitHashToHCS throws: "Failed to submit hash to Hedera Consensus
\* Service: " followed by the message of the cause.
submitErrorMessage(outcome) ==
    {"Hedera"}

\* The Error submitHashToHCS throws, whatever made the submission fail:
\* throw new Error(`Failed to submit hash to Hedera Consensus Service: ...`)
submitError(outcome) == [name |-> "Error", message |-> submitErrorMessage(outcome)]

\* submitHashToHCS with its failures swallowed
submitReturnsAlways(outcome) == TRUE

\* submitHashToHCS returns a result (TRUE) or throws (FALSE)
submitReturns(outcome) == outcome = "success"

---------------------------------------------------------------------------
(* services/mirror.service.ts *)

\* Buffer.from(message.message, "base64").toString("utf-8") of what the
\* mirror node serves for a payload
Base64Encode(payload) == [base64 |-> payload]
Base64Decode(message) == message.base64

\* JSON.parse(text): Null when it throws
JSONParse(text) ==
    IF text.json THEN Some(ProofMessage(text.hash, text.did, text.signature)) ELSE Null

\* a query that returns the whole topic, newest first
MirrorPageUnbounded(log, limit) ==
    [i \in 1..Len(log) |->
        [consensus_timestamp |-> TopicSize(SubSeq(log, 1, Len(log) + 1 - i)),
         message |-> Base64Encode(log[Len(log) + 1 - i].payload)]]

\* GET /messages?limit=100&order=desc : the newest `limit` messages of the
\* topic, newest first; message i of the page is [consensus_timestamp,
\* message].  Entries of several messages are kept as one page entry.
RECURSIVE MirrorPage(_, _)
MirrorPage(log, limit) ==
    IF log = <<>> \/ limit <= 0 THEN <<>>
    ELSE LET e == log[Len(log)]
             rest == SubSeq(log, 1, Len(log) - 1)
         IN  <<[consensus_timestamp |-> TopicSize(log),
                message |-> Base64Encode(e.payload)]>>
             \o MirrorPage(rest, limit - e.count)

\* the for loop of findMessageByHash over data.messages
RECURSIVE ScanMessages(_, _)
ScanMessages(messages, hash) ==
    IF messages = <<>> THEN Null
    ELSE LET messageContent == JSONParse(Base64Decode(Head(messages).message)) IN
         IF messageContent # Null /\ Get(messageContent).hash = hash
         THEN Some(Head(messages))
         ELSE ScanMessages(Tail(messages), hash)

\* What the mirror node can answer: "ok" (a page), "no_messages" (a body
\* without a messages array), "error" (fetch fails or response.ok is false)
MirrorOutcomes == {"ok", "no_messages", "error"}

\* findMessageByHash(hash) for a mirror answer other than "error"
findMessageByHash(hash, outcome) ==
    IF outcome = "no_messages" THEN Null
    ELSE ScanMessages(MirrorPage(hcsLog, MirrorPageLimit), hash)

---------------------------------------------------------------------------
(* api/middleware/auth.middleware.ts *)

\* prisma.organization.findUnique({ where: { did } }): the organization
\* that owns the did, or Null
organizationByDid(did) ==
    IF \E o \in DOMAIN organizations : organizations[o] = Some(did)
    THEN LET o == CHOOSE o \in DOMAIN organizations : organizations[o] = Some(did)
         IN  Some([id |-> o, did |-> organizations[o]])
    ELSE Null

\* apiKeyAuth: the status it answers with (0: it calls next()) and the
\* req.organization it sets
apiKeyAuth(apiKey) ==
    IF apiKey = "" THEN [status |-> 401, reason |-> "missing_header", organization |-> Null]
    ELSE IF apiKey \notin DOMAIN apiKeyTable \/ apiKeyTable[apiKey] \notin DOMAIN organizations
         THEN [status |-> 401, reason |-> "invalid_api_key", organization |-> Null]
    ELSE IF organizations[apiKeyTable[apiKey]] = Null
         THEN [status |-> 403, reason |-> "organization_without_did", organization |-> Null]
    ELSE [status |-> 0, reason |-> "",
          organization |-> Some([id |-> apiKeyTable[apiKey],
                                 did |-> Get(organizations[apiKeyTable[apiKey]])])]

---------------------------------------------------------------------------
(* api/controllers/anchor.controller.ts *)

\* Step 1 of anchorDocument: the 400 it answers with, or "" when the body
\* passes.
anchorValidate(body) ==
    IF body.documentHash.len = 0 \/ body.did = NoDid \/ body.signature.len = 0
    THEN "missing_fields"
    ELSE IF ~IsHederaDid(body.did) THEN "invalid_did"
    ELSE ""

\* a catch block that answers 403 for the errors of the Hedera network too
anchorCatchForbidden(message) ==
    IF "signature" \in message \/ "Hedera" \in message THEN 403 ELSE 500

\* the catch block of anchorDocument: the status for an Error whose message
\* contains the given substrings
anchorCatch(message) ==
    IF "signature" \in message THEN 403
    ELSE IF "Hedera" \in message THEN 503
    ELSE 500

\* an ownership check that only asks whether the did is registered
ownershipCheckRegistered(fullOrg, authenticatedOrg, did) ==
    IF fullOrg = Null \/ Get(fullOrg).did = Null THEN "did_not_registered" ELSE ""

\* Step 4 of anchorDocument: the 403 it answers with, or "" when the did
\* belongs to the authenticated organization
ownershipCheck(fullOrg, authenticatedOrg, did) ==
    IF fullOrg = Null \/ Get(fullOrg).did = Null THEN "did_not_registered"
    ELSE IF Get(fullOrg).id # authenticatedOrg.id THEN "did_of_other_organization"
    ELSE IF authenticatedOrg.did # did THEN "did_mismatch"
    ELSE ""

\* the proof object of the 409 and 201 bodies
proofBody(row) ==
    [documentHash |-> row.documentHash,
     hederaTransactionId |-> row.hederaTransactionId,
     consensusTimestamp |-> row.consensusTimestamp,
     issuerDid |-> row.issuerDid]

\* the proof object of the 409 body
conflictBody(row) ==
    [documentHash |-> row.documentHash,
     hederaTransactionId |-> row.hederaTransactionId,
     consensusTimestamp |-> row.consensusTimestamp,
     issuerDid |-> row.issuerDid,
     anchoredAt |-> row.createdAt]

Done(r) == r.pc = "done"

\* An anchor request for the hash has been answered with 201.
AnchoredSuccessfully(documentHash) ==
    \E i \in 1..Len(anchors) :
        /\ Done(anchors[i]) /\ anchors[i].status = 201
        /\ anchors[i].body.documentHash = documentHash

\* An anchor request for the hash has arrived.
AnchorRequested(documentHash) ==
    \E i \in 1..Len(anchors) : anchors[i].body.documentHash = documentHash

Respond(req, status, reason, proof) ==
    [req EXCEPT !.pc = "done", !.status = status, !.reason = reason, !.proof = proof]

\* The key a did was created with, which its owner signs with.
OwnKey(did) == IF did = DidA THEN "kA" ELSE IF did = DidB THEN "kB" ELSE "kC"

AnchorInput(apiKey, documentHash, did, signer) ==
    [apiKey |-> apiKey, documentHash |-> documentHash, did |-> did,
     signature |-> SignHex(signer, BufferFromHex(documentHash))]

\* The requests a client can send: each organization claiming each did with
\* the signature of the did's owner, and one request for each remaining
\* way of going wrong.
AnchorInputs ==
    {AnchorInput(k, H1, d, OwnKey(d)) : k \in ApiKeys, d \in {DidA, DidB}}
    \cup {AnchorInput("keyA", H1, DidA, "kB"),
          AnchorInput("keyA", H1, DidC, "kC"),
          AnchorInput("keyA", HShort, DidA, "kA"),
          AnchorInput("keyA", EmptyString, DidA, "kA"),
          AnchorInput("keyA", H1, DidWeb, "kA"),
          AnchorInput("revoked", H1, DidA, "kA")}

\* A request arrives: apiKeyAuth, then anchorDocument up to its first await.
AnchorArrive(in) ==
    /\ Len(anchors) + Len(verifies) < MaxRequests
    /\ LET auth == apiKeyAuth(in.apiKey)
           body == [documentHash |-> in.documentHash, did |-> in.did, signature |-> in.signature]
           req == [apiKey |-> in.apiKey, body |-> body, organization |-> auth.organization,
                   pc |-> "verifySignature", isValid |-> FALSE, fullOrg |-> Null,
                   hederaResult |-> Null, status |-> 0, reason |-> "", proof |-> Null,
                   calls |-> {},
                   afterSuccess |-> AnchoredSuccessfully(in.documentHash)]
       IN  anchors' = Append(anchors,
              IF auth.status # 0 THEN Respond(req, auth.status, auth.reason, Null)
              ELSE IF anchorValidate(body) # "" THEN Respond(req, 400, anchorValidate(body), Null)
              ELSE IF auth.organization = Null THEN Respond(req, 401, "no_organization", Null)
              ELSE req)
    /\ UNCHANGED <<identityRequests, issuerRegistry, serviceCall, organizations, didDocuments, hcsLog, documentProofs, verifies>>

\* a handler that goes on to the ownership lookup without the verifier
AnchorVerifySignatureSkipped(r) ==
    /\ anchors[r].pc = "verifySignature"
    /\ anchors' = [anchors EXCEPT ![r].pc = "ownership"]
    /\ UNCHANGED <<identityRequests, issuerRegistry, serviceCall, organizations, didDocuments,
                   hcsLog, documentProofs, verifies>>

\* Step 3: const isValid = await verifySignature(did, documentHash, signature)
AnchorVerifySignature(r) ==
    /\ anchors[r].pc = "verifySignature"
    /\ \E didDocument \in resolveDID(anchors[r].body.did) :
         LET req == anchors[r]
             isValid == verifySignature(req.body.did, req.body.documentHash,
                                        req.body.signature, didDocument)
             called == [req EXCEPT !.isValid = isValid,
                           !.calls = @ \cup (IF verifySignatureResolves(req.body.did,
                                                  req.body.documentHash, req.body.signature)
                                             THEN {"resolveDID"} ELSE {})]
         IN  anchors' = [anchors EXCEPT ![r] =
                IF ~isValid THEN Respond(called, 403, "signature_invalid", Null)
                ELSE [called EXCEPT !.pc = "ownership"]]
    /\ UNCHANGED <<identityRequests, issuerRegistry, serviceCall, organizations, didDocuments, hcsLog, documentProofs, verifies>>

\* Step 4: const fullOrg = await prisma.organization.findUnique(...)
AnchorOwnership(r) ==
    /\ anchors[r].pc = "ownership"
    /\ LET req == anchors[r]
           fullOrg == organizationByDid(req.body.did)
           failure == ownershipCheck(fullOrg, Get(req.organization), req.body.did)
           called == [req EXCEPT !.fullOrg = fullOrg,
                                 !.calls = @ \cup {"organization.findUnique"}]
       IN  anchors' = [anchors EXCEPT ![r] =
              IF failure # "" THEN Respond(called, 403, failure, Null)
              ELSE [called EXCEPT !.pc = "findProof"]]
    /\ UNCHANGED <<identityRequests, issuerRegistry, serviceCall, organizations, didDocuments, hcsLog, documentProofs, verifies>>

\* const existingProof = await findProofByHash(documentHash)
AnchorFindProof(r) ==
    /\ anchors[r].pc = "findProof"
    /\ LET req == anchors[r]
           existingProof == findProofByHash(req.body.documentHash)
           called == [req EXCEPT !.calls = @ \cup {"findProofByHash"}]
       IN  anchors' = [anchors EXCEPT ![r] =
              IF existingProof # Null
              THEN Respond(called, 409, "already_anchored",
                           Some(conflictBody(Get(existingProof))))
              ELSE [called EXCEPT !.pc = "submit"]]
    /\ UNCHANGED <<identityRequests, issuerRegistry, serviceCall, organizations, didDocuments, hcsLog, documentProofs, verifies>>

\* const hederaResult = await submitHashToHCS(proofMessage)
AnchorSubmit(r) ==
    /\ anchors[r].pc = "submit"
    /\ \E outcome \in SubmitOutcomes :
         LET req == anchors[r]
             proofMessage == JSONStringify(req.body.documentHash, req.body.did, req.body.signature)
             log == IF Landed(outcome) THEN Append(hcsLog, TopicEntry(proofMessage, 1, r))
                    ELSE hcsLog
             hederaResult == [transactionId |-> r, consensusTimestamp |-> TopicSize(log)]
             called == [req EXCEPT !.calls = @ \cup {"submitHashToHCS"}]
         IN  /\ hcsLog' = log
             /\ anchors' = [anchors EXCEPT ![r] =
                  IF submitReturns(outcome)
                  THEN [called EXCEPT !.pc = "createProof", !.hederaResult = Some(hederaResult)]
                  ELSE Respond(called, anchorCatch(submitErrorMessage(outcome)), "submit_failed", Null)]
    /\ UNCHANGED <<identityRequests, issuerRegistry, serviceCall, organizations, didDocuments, documentProofs, verifies>>

\* the substrings the catch blocks look for in the message of the error
\* prisma throws for a unique constraint violation
uniqueViolationMessage == {}

\* const proof = await createDocumentProof({...}) and the 201 answer
AnchorCreateProof(r) ==
    /\ anchors[r].pc = "createProof"
    /\ LET req == anchors[r]
           called == [req EXCEPT !.calls = @ \cup {"createDocumentProof"}]
           row == NewProofRow(r, [documentHash |-> req.body.documentHash,
                                  hederaTransactionId |-> Get(req.hederaResult).transactionId,
                                  consensusTimestamp |-> Get(req.hederaResult).consensusTimestamp,
                                  issuerDid |-> req.body.did])
       IN  /\ documentProofs' = createDocumentProof(row)
           /\ anchors' = [anchors EXCEPT ![r] =
                 IF UniqueViolation(req.body.documentHash)
                 THEN Respond(called, anchorCatch(uniqueViolationMessage), "create_failed", Null)
                 ELSE Respond(called, 201, "anchored", Some(proofBody(row)))]
    /\ UNCHANGED <<identityRequests, issuerRegistry, serviceCall, organizations, didDocuments, hcsLog, verifies>>

---------------------------------------------------------------------------
(* services/registry.service.ts *)

\* What the trust check can meet: no REGISTRY_CONTRACT_ID configured, the
\* contract answering true or false, or a failing contract call.
RegistryOutcomes == {"unconfigured", "trusted", "untrusted", "error"}

\* a trust check that takes a failing registry for a trusting one
isTrustedIssuerOptimistic(did, outcome) == outcome \in {"trusted", "error"}

\* isTrusted as verifyDocument computes it around isTrustedIssuer(did)
isTrustedIssuer(did, outcome) == outcome = "trusted"

---------------------------------------------------------------------------
(* api/controllers/verify.controller.ts *)

\* a catch block without the branch for the mirror node
verifyCatchInternal(message) == 500

\* the catch block of verifyDocument
verifyCatch(message) ==
    IF "mirror node" \in message THEN 503 ELSE 500

\* message of the Error findMessageByHash throws
mirrorErrorMessage == {"mirror node"}

\* the 400 for the body, or "" when it passes
verifyValidate(documentHash) ==
    IF documentHash.len = 0 THEN "missing_hash"
    ELSE IF ~IsSha256Hex(documentHash) THEN "invalid_hash_format"
    ELSE ""

VerifyInputs == {H1, HShort, EmptyString}

Answer(req, status, outcome, reason, response) ==
    [req EXCEPT !.pc = "done", !.status = status, !.outcome = outcome,
                !.reason = reason, !.response = response]

\* The message of the body of a 200 answer, by the branch that sends it
verifyMessage(reason) ==
    IF reason = "not_anchored"
    THEN "This document has not been anchored and cannot be verified."
    ELSE IF reason = "not_on_mirror"
    THEN "Proof found but could not be verified on-chain."
    ELSE IF reason = "signature_failed"
    THEN "Signature verification failed. Document cannot be verified."
    ELSE IF reason = "verified"
    THEN "This document is authentic and was verified on the Hedera network."
    ELSE ""

\* What the client receives for an answered verify request: the HTTP status
\* and the status, message and proof of the body
ResponseBody(req) ==
    [httpStatus |-> req.status, status |-> req.outcome,
     message |-> verifyMessage(req.reason), proof |-> req.response]

\* an answer that reports the missing proof as a server error
NotVerifiedAsError(req, reason) == Answer(req, 500, "", reason, Null)

\* res.status(200).json({ status: "NOT_VERIFIED", message, proof: null })
NotVerified(req, reason) == Answer(req, 200, "NOT_VERIFIED", reason, Null)

\* A verify request arrives: verifyDocument up to its first await.
VerifyArrive(documentHash) ==
    /\ Len(anchors) + Len(verifies) < MaxRequests
    /\ LET req == [documentHash |-> documentHash, pc |-> "getProof", proof |-> Null,
                   hcsMessage |-> Null, messageContent |-> Null, didDocument |-> Null,
                   isValid |-> FALSE, organizationName |-> Null, isTrusted |-> FALSE,
                   registry |-> "",
                   status |-> 0, outcome |-> "", reason |-> "", response |-> Null,
                   afterSuccess |-> AnchoredSuccessfully(documentHash),
                   beforeAnchor |-> FALSE]
       IN  verifies' = Append(verifies,
              IF verifyValidate(documentHash) # ""
              THEN Answer(req, 400, "", verifyValidate(documentHash), Null)
              ELSE req)
    /\ UNCHANGED <<identityRequests, issuerRegistry, serviceCall, organizations, didDocuments, hcsLog, documentProofs, anchors>>

\* Step 1: const proof = await getProofByHash(documentHash)
VerifyGetProof(v) ==
    /\ verifies[v].pc = "getProof"
    /\ LET req == verifies[v]
           proof == getProofByHash(req.documentHash)
           looked == [req EXCEPT !.beforeAnchor = ~AnchorRequested(req.documentHash)]
       IN  verifies' = [verifies EXCEPT ![v] =
              IF proof = Null THEN NotVerified(looked, "not_anchored")
              ELSE [looked EXCEPT !.pc = "mirror", !.proof = proof]]
    /\ UNCHANGED <<identityRequests, issuerRegistry, serviceCall, organizations, didDocuments, hcsLog, documentProofs, anchors>>

\* a handler that drops the index row of a verify request at the mirror step
VerifyMirrorPruning(v) ==
    /\ verifies[v].pc = "mirror"
    /\ verifies' = [verifies EXCEPT ![v] = NotVerified(verifies[v], "not_on_mirror")]
    /\ documentProofs' = documentProofs \ {Get(verifies[v].proof)}
    /\ UNCHANGED <<identityRequests, issuerRegistry, serviceCall, organizations, didDocuments,
                   hcsLog, anchors>>

\* const hcsMessage = await findMessageByHash(documentHash), and the parse
\* of the message that follows it
VerifyMirror(v) ==
    /\ verifies[v].pc = "mirror"
    /\ \E outcome \in MirrorOutcomes :
         LET req == verifies[v]
             hcsMessage == findMessageByHash(req.documentHash, outcome)
             messageContent == JSONParse(Base64Decode(Get(hcsMessage).message))
         IN  verifies' = [verifies EXCEPT ![v] =
                IF outcome = "error"
                THEN Answer(req, verifyCatch(mirrorErrorMessage), "", "mirror_error", Null)
                ELSE IF hcsMessage = Null THEN NotVerified(req, "not_on_mirror")
                ELSE IF messageContent = Null
                     THEN Answer([req EXCEPT !.hcsMessage = hcsMessage], 500, "", "parse_error", Null)
                ELSE [req EXCEPT !.pc = "verifySignature", !.hcsMessage = hcsMessage,
                                 !.messageContent = messageContent]]
    /\ UNCHANGED <<identityRequests, issuerRegistry, serviceCall, organizations, didDocuments, hcsLog, documentProofs, anchors>>

\* const isValid = await verifySignature(messageContent.did, .hash, .signature)
VerifyVerifySignature(v) ==
    /\ verifies[v].pc = "verifySignature"
    /\ LET req == verifies[v]
           messageContent == Get(req.messageContent)
       IN  \E didDocument \in resolveDID(messageContent.did) :
             LET isValid == verifySignature(messageContent.did, messageContent.hash,
                                            messageContent.signature, didDocument)
                 checked == [req EXCEPT !.isValid = isValid, !.didDocument = didDocument]
             IN  verifies' = [verifies EXCEPT ![v] =
                    IF ~isValid THEN NotVerified(checked, "signature_failed")
                    ELSE [checked EXCEPT !.pc = "organization"]]
    /\ UNCHANGED <<identityRequests, issuerRegistry, serviceCall, organizations, didDocuments, hcsLog, documentProofs, anchors>>

\* the lookup of the organization name by proof.issuerDid
VerifyOrganization(v) ==
    /\ verifies[v].pc = "organization"
    /\ LET req == verifies[v]
           organization == organizationByDid(Get(req.proof).issuerDid)
       IN  verifies' = [verifies EXCEPT ![v] =
              [req EXCEPT !.pc = "registry",
                          !.organizationName = IF organization = Null THEN Null
                                               ELSE Some(Get(organization).id)]]
    /\ UNCHANGED <<identityRequests, issuerRegistry, serviceCall, organizations, didDocuments, hcsLog, documentProofs, anchors>>

\* the trust check and the VERIFIED_ON_CHAIN answer
VerifyRegistry(v) ==
    /\ verifies[v].pc = "registry"
    /\ \E outcome \in RegistryOutcomes :
         LET req == verifies[v]
             isTrusted == isTrustedIssuer(Get(req.messageContent).did, outcome)
             response == [hash |-> Get(req.proof).documentHash,
                          did |-> Get(req.proof).issuerDid,
                          signature |-> Get(req.messageContent).signature,
                          consensusTimestamp |-> Get(req.proof).consensusTimestamp,
                          organizationName |-> req.organizationName]
         IN  verifies' = [verifies EXCEPT ![v] =
                Answer([req EXCEPT !.isTrusted = isTrusted, !.registry = outcome],
                       200, "VERIFIED_ON_CHAIN",
                       "verified", Some(response))]
    /\ UNCHANGED <<identityRequests, issuerRegistry, serviceCall, organizations, didDocuments, hcsLog, documentProofs, anchors>>

---------------------------------------------------------------------------
(* The console: what the handlers and services write of the hash and of the *)
(* signature of a request.                                                  *)

\* One console line: the statement that wrote it, the value it shows and how
\* much of the value ("full", or "prefix": substring(0, 16)).
ConsoleLine(statement, field, shown) ==
    [statement |-> statement, field |-> field, shown |-> shown]

\* console.log(`Document hash: ${documentHash.substring(0, 16)}...`), written
\* once apiKeyAuth and the validation of the body have passed
anchorControllerLog(req) ==
    IF req.organization # Null /\ anchorValidate(req.body) = ""
    THEN {ConsoleLine("anchor.controller.ts:109", "documentHash", "prefix")}
    ELSE {}

\* console.log("Successfully submitted proof to HCS:", { message, ... }),
\* written before submitHashToHCS returns: message is the serialized
\* ProofMessage, with the hash and the signature in full
submitHashToHCSLog(req) ==
    IF req.hederaResult # Null
    THEN {ConsoleLine("hedera.service.ts:93", "documentHash", "full"),
          ConsoleLine("hedera.service.ts:93", "signature", "full")}
    ELSE {}

\* console.log(`Document hash received: ${documentHash}`), written once the
\* hash has passed the validation of verifyDocument
verifyControllerLog(req) ==
    IF verifyValidate(req.documentHash) = ""
    THEN {ConsoleLine("verify.controller.ts:258", "documentHash", "full")}
    ELSE {}

---------------------------------------------------------------------------
(* contracts/IssuerRegistry.sol, as listed in README.md *)

\* The accounts that call the contract.
Accounts == {"dtrust", "other"}

\* constructor() { owner = msg.sender; } with the mapping at its default.
\* lastChange[did] and lastCall are history: the last call that changed the
\* flag of the did, and the last call of any function.
IssuerRegistryDeployed(sender) ==
    [owner |-> sender,
     isTrusted |-> [d \in HederaDids |-> FALSE],
     lastChange |-> [d \in HederaDids |-> [fn |-> "none", sender |-> ""]],
     lastCall |-> Null]

\* a modifier that lets every caller through
onlyOwnerOmitted(registry, sender) == TRUE

\* modifier onlyOwner: require(msg.sender == owner, ...)
onlyOwner(registry, sender) == sender = registry.owner

\* function checkTrusted(string calldata did) external view returns (bool)
checkTrusted(registry, did) == registry.isTrusted[did]

\* What a call leaves in lastCall.
RegistryCall(registry, fn, sender, did, reverted, returned) ==
    Some([fn |-> fn, sender |-> sender, did |-> did, reverted |-> reverted,
          returned |-> returned, before |-> registry.isTrusted])

\* function addIssuer(string calldata did) external onlyOwner
AddIssuer(sender, did) ==
    /\ LET registry == issuerRegistry
           reverted == ~onlyOwner(registry, sender) \/ registry.isTrusted[did]
       IN  issuerRegistry' =
             IF reverted
             THEN [registry EXCEPT !.lastCall =
                      RegistryCall(registry, "addIssuer", sender, did, TRUE, FALSE)]
             ELSE [registry EXCEPT !.isTrusted[did] = TRUE,
                      !.lastChange[did] = [fn |-> "addIssuer", sender |-> sender],
                      !.lastCall = RegistryCall(registry, "addIssuer", sender, did, FALSE, FALSE)]
    /\ UNCHANGED <<identityRequests, serviceCall, organizations, didDocuments, hcsLog,
                   documentProofs, anchors, verifies>>

\* function removeIssuer(string calldata did) external onlyOwner
RemoveIssuer(sender, did) ==
    /\ LET registry == issuerRegistry
           reverted == ~onlyOwner(registry, sender) \/ ~registry.isTrusted[did]
       IN  issuerRegistry' =
             IF reverted
             THEN [registry EXCEPT !.lastCall =
                      RegistryCall(registry, "removeIssuer", sender, did, TRUE, FALSE)]
             ELSE [registry EXCEPT !.isTrusted[did] = FALSE,
                      !.lastChange[did] = [fn |-> "removeIssuer", sender |-> sender],
                      !.lastCall = RegistryCall(registry, "removeIssuer", sender, did, FALSE, FALSE)]
    /\ UNCHANGED <<identityRequests, serviceCall, organizations, didDocuments, hcsLog,
                   documentProofs, anchors, verifies>>

\* a call of the view function checkTrusted
CheckTrusted(sender, did) ==
    /\ issuerRegistry' = [issuerRegistry EXCEPT !.lastCall =
          RegistryCall(issuerRegistry, "checkTrusted", sender, did, FALSE,
                       checkTrusted(issuerRegistry, did))]
    /\ UNCHANGED <<identityRequests, serviceCall, organizations, didDocuments, hcsLog,
                   documentProofs, anchors, verifies>>

---------------------------------------------------------------------------
(* api/controllers/auth.controller.ts (signup),                             *)
(* api/controllers/organization.controller.ts, api/controllers/did.controller.ts *)

MaxIdentityRequests == 3   \* signup and DID requests that arrive in a behaviour

\* prisma.organization.update({ where: { id }, data: { did } }) throws: no
\* such organization, or the unique index Organization_did_key
organizationUpdateThrows(id, did) ==
    \/ id \notin DOMAIN organizations
    \/ \E o \in DOMAIN organizations : o # id /\ organizations[o] = Some(did)

\* the Organization table after prisma.organization.update(...)
organizationUpdate(id, did) ==
    IF organizationUpdateThrows(id, did) THEN organizations
    ELSE [organizations EXCEPT ![id] = Some(did)]

\* the Organization table after prisma.organization.create({ data: { name, ... } })
organizationCreate(name) ==
    [o \in DOMAIN organizations \cup {name} |->
        IF o \in DOMAIN organizations THEN organizations[o] ELSE Null]

IdentityRequest(kind, organizationId, did, pc, status) ==
    [kind |-> kind, organizationId |-> organizationId, did |-> did, pc |-> pc,
     status |-> status]

\* POST /signup arrives: signup up to its first await.  did is the did of the
\* body, or the one createDidFromPublicKey makes of its public key (NoDid:
\* the body has neither).
SignupArrive(name, did) ==
    /\ Len(identityRequests) < MaxIdentityRequests
    /\ identityRequests' = Append(identityRequests,
          IdentityRequest("signup", name, did, "findUnique", 0))
    /\ UNCHANGED <<issuerRegistry, serviceCall, organizations, didDocuments, hcsLog,
                   documentProofs, anchors, verifies>>

\* const existingOrg = await prisma.organization.findUnique({ where: { name } })
SignupFindUnique(r) ==
    /\ identityRequests[r].kind = "signup" /\ identityRequests[r].pc = "findUnique"
    /\ identityRequests' = [identityRequests EXCEPT ![r] =
          IF identityRequests[r].organizationId \in DOMAIN organizations
          THEN [@ EXCEPT !.pc = "done", !.status = 409]
          ELSE [@ EXCEPT !.pc = "create"]]
    /\ UNCHANGED <<issuerRegistry, serviceCall, organizations, didDocuments, hcsLog,
                   documentProofs, anchors, verifies>>

\* Steps 1 to 3: prisma.organization.create, prisma.apiKey.create and the
\* choice of didString (it throws when the body has no did and no publicKey)
SignupCreate(r) ==
    /\ identityRequests[r].kind = "signup" /\ identityRequests[r].pc = "create"
    /\ LET req == identityRequests[r]
           taken == req.organizationId \in DOMAIN organizations
       IN  /\ organizations' = IF taken THEN organizations
                               ELSE organizationCreate(req.organizationId)
           /\ identityRequests' = [identityRequests EXCEPT ![r] =
                 IF taken \/ req.did = NoDid THEN [@ EXCEPT !.pc = "done", !.status = 500]
                 ELSE [@ EXCEPT !.pc = "update"]]
    /\ UNCHANGED <<issuerRegistry, serviceCall, didDocuments, hcsLog, documentProofs,
                   anchors, verifies>>

\* Step 4: prisma.organization.update({ where: { id }, data: { did: didString } })
SignupUpdate(r) ==
    /\ identityRequests[r].kind = "signup" /\ identityRequests[r].pc = "update"
    /\ LET req == identityRequests[r]
       IN  /\ organizations' = organizationUpdate(req.organizationId, req.did)
           /\ identityRequests' = [identityRequests EXCEPT ![r] =
                 [@ EXCEPT !.pc = "done",
                           !.status = IF organizationUpdateThrows(req.organizationId, req.did)
                                      THEN 500 ELSE 201]]
    /\ UNCHANGED <<issuerRegistry, serviceCall, didDocuments, hcsLog, documentProofs,
                   anchors, verifies>>

\* POST /organization/did: apiKeyAuth, then createOrganizationDid.  did is the
\* did createDidFromPublicKey makes of the public key of the body.
CreateOrganizationDid(apiKey, did) ==
    /\ Len(identityRequests) < MaxIdentityRequests
    /\ LET auth == apiKeyAuth(apiKey)
           id == IF auth.organization = Null THEN "" ELSE Get(auth.organization).id
           status == IF auth.status # 0 THEN auth.status
                     ELSE IF id \notin DOMAIN organizations THEN 404
                     ELSE IF organizations[id] # Null THEN 409
                     ELSE IF organizationUpdateThrows(id, did) THEN 500
                     ELSE 201
       IN  /\ organizations' = IF status = 201 THEN organizationUpdate(id, did)
                               ELSE organizations
           /\ identityRequests' = Append(identityRequests,
                 IdentityRequest("createOrganizationDid", id, did, "done", status))
    /\ UNCHANGED <<issuerRegistry, serviceCall, didDocuments, hcsLog, documentProofs,
                   anchors, verifies>>

\* POST /did/submit-creation (no authentication): submitDidCreation.  did is
\* result.did of submitCreateDIDRequest (NoDid: the result has none);
\* organizationId is "" when the body has none.  An error of the update is
\* caught and logged, and the answer is 201.
SubmitDidCreation(organizationId, did) ==
    /\ Len(identityRequests) < MaxIdentityRequests
    /\ organizations' = IF did # NoDid /\ organizationId # ""
                        THEN organizationUpdate(organizationId, did)
                        ELSE organizations
    /\ identityRequests' = Append(identityRequests,
          IdentityRequest("submitDidCreation", organizationId, did, "done",
                          IF did = NoDid THEN 500 ELSE 201))
    /\ UNCHANGED <<issuerRegistry, serviceCall, didDocuments, hcsLog, documentProofs,
                   anchors, verifies>>

---------------------------------------------------------------------------
(* The environment *)

\* The controller of DidA rotates its key on the DID network (to a new key,
\* or back).
RotateKey ==
    /\ \E k \in {"kA", "kA2"} :
         /\ didDocuments[DidA] # <<Ed25519Method(k)>>
         /\ didDocuments' = [didDocuments EXCEPT ![DidA] = <<Ed25519Method(k)>>]
    /\ UNCHANGED <<identityRequests, issuerRegistry, serviceCall, organizations, hcsLog, documentProofs, anchors, verifies>>

\* Other messages reach the topic, a full mirror page of them.
TrafficBursts == Cardinality({i \in 1..Len(hcsLog) : hcsLog[i].by = 0})

ForeignTraffic ==
    /\ TrafficBursts < MaxTraffic
    /\ hcsLog' = Append(hcsLog, TopicEntry(RawText, MirrorPageLimit, 0))
    /\ UNCHANGED <<identityRequests, issuerRegistry, serviceCall, organizations, didDocuments, documentProofs, anchors, verifies>>

---------------------------------------------------------------------------

Init ==
    /\ organizations = [o \in OrgIds |-> IF o = "orgA" THEN Some(DidA) ELSE Some(DidB)]
    /\ didDocuments = [d \in HederaDids |->
                         IF d = DidA THEN <<Ed25519Method("kA")>>
                         ELSE IF d = DidB THEN <<OtherMethod, Ed25519Method("kB")>>
                         ELSE <<Ed25519Method("kC")>>]
    /\ hcsLog = <<>>
    /\ documentProofs = {}
    /\ anchors = <<>>
    /\ verifies = <<>>
    /\ serviceCall = Null
    /\ identityRequests = <<>>
    /\ issuerRegistry = IssuerRegistryDeployed("dtrust")

Next ==
    \/ \E in \in AnchorInputs : AnchorArrive(in)
    \/ \E r \in 1..Len(anchors) : AnchorVerifySignature(r)
    \/ \E r \in 1..Len(anchors) : AnchorOwnership(r)
    \/ \E r \in 1..Len(anchors) : AnchorFindProof(r)
    \/ \E r \in 1..Len(anchors) : AnchorSubmit(r)
    \/ \E r \in 1..Len(anchors) : AnchorCreateProof(r)
    \/ \E h \in VerifyInputs : VerifyArrive(h)
    \/ \E v \in 1..Len(verifies) : VerifyGetProof(v)
    \/ \E v \in 1..Len(verifies) : VerifyMirror(v)
    \/ \E v \in 1..Len(verifies) : VerifyVerifySignature(v)
    \/ \E v \in 1..Len(verifies) : VerifyOrganization(v)
    \/ \E v \in 1..Len(verifies) : VerifyRegistry(v)
    \/ RotateKey
    \/ ForeignTraffic

Spec == Init /\ [][Next]_vars

---------------------------------------------------------------------------
(* Collaborators that never answer.  The four external calls are awaited    *)
(* as they are: resolveDID(did), transaction.execute / getReceipt,          *)
(* fetch(url) and query.execute(client), with no timer, AbortSignal or      *)
(* deadline set by the server, so the await settles only if the             *)
(* collaborator answers.                                                    *)

\* the position of a request whose await never settles
Awaiting(pc) ==
    IF pc = "verifySignature" THEN "awaiting resolveDID"
    ELSE IF pc = "submit" THEN "awaiting submitHashToHCS"
    ELSE IF pc = "mirror" THEN "awaiting findMessageByHash"
    ELSE "awaiting isTrustedIssuer"

\* The identity resolver or the consensus service never answers an anchor
\* request.
AnchorCollaboratorSilent(r) ==
    /\ \/ /\ anchors[r].pc = "verifySignature"
          /\ verifySignatureResolves(anchors[r].body.did, anchors[r].body.documentHash,
                                     anchors[r].body.signature)
       \/ anchors[r].pc = "submit"
    /\ anchors' = [anchors EXCEPT ![r].pc = Awaiting(@)]
    /\ UNCHANGED <<identityRequests, issuerRegistry, serviceCall, organizations, didDocuments,
                   hcsLog, documentProofs, verifies>>

\* The mirror node, the identity resolver or the registry never answers a
\* verify request.
VerifyCollaboratorSilent(v) ==
    /\ verifies[v].pc \in {"mirror", "verifySignature", "registry"}
    /\ verifies' = [verifies EXCEPT ![v].pc = Awaiting(@)]
    /\ UNCHANGED <<identityRequests, issuerRegistry, serviceCall, organizations, didDocuments,
                   hcsLog, documentProofs, anchors>>

NextSilent ==
    \/ Next
    \/ \E r \in 1..Len(anchors) : AnchorCollaboratorSilent(r)
    \/ \E v \in 1..Len(verifies) : VerifyCollaboratorSilent(v)

SpecSilent == Init /\ [][NextSilent]_vars

---------------------------------------------------------------------------
(* The services called on their own: verifySignature and submitHashToHCS,   *)
(* each applied once to an input, on a DID network in any of its states.    *)

\* The states of the DID network: the document of DidA carries its key, a
\* rotated key, no verification method, no Ed25519 method, or a key that
\* cannot be decoded.
DidNetworks ==
    {[d \in HederaDids |->
        IF d = DidA THEN docA
        ELSE IF d = DidB THEN <<OtherMethod, Ed25519Method("kB")>>
        ELSE <<Ed25519Method("kC")>>] :
     docA \in {<<Ed25519Method("kA")>>, <<Ed25519Method("kA2")>>, <<>>,
               <<OtherMethod>>, <<MalformedMethod>>}}

VerifierDids == {DidA, DidB, DidC, DidWeb, NoDid}

VerifierHashes == {H1, HShort, EmptyString} \cup {FlipBit(H1, i) : i \in HashBitPositions}

\* Signatures by the keys of DidA and DidB over the hashes, the same with a
\* bit flipped, a signature one byte short and an empty one.
VerifierSignatures ==
    {SignHex(k, BufferFromHex(h)) : k \in {"kA", "kB"}, h \in {H1, FlipBit(H1, 0), HShort}}
    \cup {FlipBit(SignHex(k, BufferFromHex(H1)), i) :
             k \in {"kA", "kB"}, i \in SignatureBitPositions}
    \cup {[SignHex("kA", BufferFromHex(H1)) EXCEPT !.hexChars = 2 * SignatureBytes - 2,
                                                  !.len = 2 * SignatureBytes - 2],
          [SignHex("kA", BufferFromHex(H1)) EXCEPT !.hexChars = 0, !.len = 0]}

\* One call of verifySignature(did, documentHashHex, signatureHex)
VerifySignatureCall(did, documentHashHex, signatureHex) ==
    /\ \E didDocument \in
            IF verifySignatureResolves(did, documentHashHex, signatureHex)
            THEN resolveDID(did) ELSE {Null} :
         serviceCall' = Some([service |-> "verifySignature",
                              did |-> did,
                              documentHashHex |-> documentHashHex,
                              signatureHex |-> signatureHex,
                              didDocument |-> didDocument,
                              outcome |-> verifySignatureOutcome(did, documentHashHex,
                                                                 signatureHex, didDocument)])
    /\ UNCHANGED <<identityRequests, issuerRegistry, organizations, didDocuments, hcsLog,
                   documentProofs, anchors, verifies>>

\* One call of submitHashToHCS(message)
SubmitHashToHCSCall(outcome) ==
    /\ serviceCall' = Some([service |-> "submitHashToHCS",
                            outcome |-> outcome,
                            returned |-> submitReturns(outcome),
                            error |-> IF submitReturns(outcome) THEN Null
                                      ELSE Some(submitError(outcome))])
    /\ UNCHANGED <<identityRequests, issuerRegistry, organizations, didDocuments, hcsLog,
                   documentProofs, anchors, verifies>>

\* One call of findMessageByHash(hash)
FindMessageByHashCall(hash, outcome) ==
    /\ serviceCall' = Some([service |-> "findMessageByHash",
                            hash |-> hash,
                            log |-> hcsLog,
                            outcome |-> outcome,
                            threw |-> outcome = "error",
                            result |-> IF outcome = "error" THEN Null
                                       ELSE findMessageByHash(hash, outcome)])
    /\ UNCHANGED <<identityRequests, issuerRegistry, organizations, didDocuments, hcsLog,
                   documentProofs, anchors, verifies>>

\* The proof message of an organization for H1, and a proof message for
\* another hash.
ProofText(did) == JSONStringify(H1, did, SignHex(OwnKey(did), BufferFromHex(H1)))
OtherProofText == JSONStringify(HShort, DidA, SignHex("kA", BufferFromHex(HShort)))

ServicesInit ==
    /\ organizations = [o \in OrgIds |-> IF o = "orgA" THEN Some(DidA) ELSE Some(DidB)]
    /\ didDocuments \in DidNetworks
    /\ hcsLog = <<>>
    /\ documentProofs = {}
    /\ anchors = <<>>
    /\ verifies = <<>>
    /\ serviceCall = Null
    /\ identityRequests = <<>>
    /\ issuerRegistry = IssuerRegistryDeployed("dtrust")

ServicesNext ==
    \/ \E did \in VerifierDids, h \in VerifierHashes, sig \in VerifierSignatures :
          VerifySignatureCall(did, h, sig)
    \/ \E outcome \in SubmitOutcomes : SubmitHashToHCSCall(outcome)

SpecServices == ServicesInit /\ [][ServicesNext]_vars

---------------------------------------------------------------------------
(* The mirror lookup on its own: messages reach the topic, and              *)
(* findMessageByHash is called for a hash at any moment.                    *)

MaxTopicEntries == 3   \* runs of messages that reach the topic

\* The messages that reach the topic: proofs for H1, a proof for another
\* hash, and runs of 1, MirrorPageLimit - 1 and MirrorPageLimit messages that
\* are not JSON.
TopicMessages ==
    {TopicEntry(ProofText(DidA), 1, 1), TopicEntry(ProofText(DidB), 1, 2),
     TopicEntry(OtherProofText, 1, 3)}
    \cup {TopicEntry(RawText, count, 0) :
             count \in {1, MirrorPageLimit - 1, MirrorPageLimit}}

TopicAppend(entry) ==
    /\ Len(hcsLog) < MaxTopicEntries
    /\ hcsLog' = Append(hcsLog, entry)
    /\ UNCHANGED <<identityRequests, issuerRegistry, serviceCall, organizations, didDocuments,
                   documentProofs, anchors, verifies>>

MirrorNext ==
    \/ \E entry \in TopicMessages : TopicAppend(entry)
    \/ \E hash \in VerifyInputs, outcome \in MirrorOutcomes : FindMessageByHashCall(hash, outcome)

SpecMirror == Init /\ [][MirrorNext]_vars

---------------------------------------------------------------------------
(* Verification after a race.  Two anchor requests for H1, of orgA with     *)
(* DidA and of orgB with DidB, both passed findProofByHash before either    *)
(* wrote its row; the request of orgA submitted first and wrote the row,    *)
(* the request of orgB submitted second and createDocumentProof rejected    *)
(* its row.  Both have been answered and are no longer tracked; verify      *)
(* requests arrive.                                                         *)

RaceInit ==
    /\ organizations = [o \in OrgIds |-> IF o = "orgA" THEN Some(DidA) ELSE Some(DidB)]
    /\ didDocuments = [d \in HederaDids |->
                         IF d = DidA THEN <<Ed25519Method("kA")>>
                         ELSE IF d = DidB THEN <<OtherMethod, Ed25519Method("kB")>>
                         ELSE <<Ed25519Method("kC")>>]
    /\ hcsLog = <<TopicEntry(ProofText(DidA), 1, 1), TopicEntry(ProofText(DidB), 1, 2)>>
    /\ documentProofs = {[id |-> 1, documentHash |-> H1, hederaTransactionId |-> 1,
                          consensusTimestamp |-> 1, issuerDid |-> DidA, createdAt |-> 1]}
    /\ anchors = <<>>
    /\ verifies = <<>>
    /\ serviceCall = Null
    /\ identityRequests = <<>>
    /\ issuerRegistry = IssuerRegistryDeployed("dtrust")

RaceNext ==
    \/ \E h \in VerifyInputs : VerifyArrive(h)
    \/ \E v \in 1..Len(verifies) : VerifyGetProof(v)
    \/ \E v \in 1..Len(verifies) : VerifyMirror(v)
    \/ \E v \in 1..Len(verifies) : VerifyVerifySignature(v)
    \/ \E v \in 1..Len(verifies) : VerifyOrganization(v)
    \/ \E v \in 1..Len(verifies) : VerifyRegistry(v)
    \/ RotateKey
    \/ ForeignTraffic

SpecRace == RaceInit /\ [][RaceNext]_vars

---------------------------------------------------------------------------
(* The IssuerRegistry contract on its own: deployed by any account, then    *)
(* called by any account in any order.                                      *)

RegistryInit ==
    /\ organizations = [o \in OrgIds |-> IF o = "orgA" THEN Some(DidA) ELSE Some(DidB)]
    /\ didDocuments = [d \in HederaDids |-> <<Ed25519Method(OwnKey(d))>>]
    /\ hcsLog = <<>>
    /\ documentProofs = {}
    /\ anchors = <<>>
    /\ verifies = <<>>
    /\ serviceCall = Null
    /\ identityRequests = <<>>
    /\ \E deployer \in Accounts : issuerRegistry = IssuerRegistryDeployed(deployer)

RegistryNext ==
    \/ \E sender \in Accounts, did \in HederaDids : AddIssuer(sender, did)
    \/ \E sender \in Accounts, did \in HederaDids : RemoveIssuer(sender, did)
    \/ \E sender \in Accounts, did \in HederaDids : CheckTrusted(sender, did)

SpecRegistry == RegistryInit /\ [][RegistryNext]_vars

---------------------------------------------------------------------------
(* Signup and the DID routes: one organization has signed up, and signup,   *)
(* organization-DID and submit-creation requests arrive in any order.       *)

IdentityDids == {DidA, DidB, NoDid}

IdentityInit ==
    /\ organizations = [o \in {"orgA"} |-> Some(DidA)]
    /\ didDocuments = [d \in HederaDids |-> <<Ed25519Method(OwnKey(d))>>]
    /\ hcsLog = <<>>
    /\ documentProofs = {}
    /\ anchors = <<>>
    /\ verifies = <<>>
    /\ serviceCall = Null
    /\ identityRequests = <<>>
    /\ issuerRegistry = IssuerRegistryDeployed("dtrust")

IdentityNext ==
    \/ \E name \in OrgIds, did \in IdentityDids : SignupArrive(name, did)
    \/ \E r \in 1..Len(identityRequests) : SignupFindUnique(r)
    \/ \E r \in 1..Len(identityRequests) : SignupCreate(r)
    \/ \E r \in 1..Len(identityRequests) : SignupUpdate(r)
    \/ \E apiKey \in ApiKeys \cup {"revoked"}, did \in IdentityDids \ {NoDid} :
          CreateOrganizationDid(apiKey, did)
    \/ \E organizationId \in OrgIds \cup {""}, did \in IdentityDids :
          SubmitDidCreation(organizationId, did)

SpecIdentity == IdentityInit /\ [][IdentityNext]_vars

---------------------------------------------------------------------------
(* Properties *)

AnchorIds == 1..Len(anchors)
VerifyIds == 1..Len(verifies)

\* the topic entries request r put on the topic
EntriesBy(r) == {i \in 1..Len(hcsLog) : hcsLog[i].by = r}

\* the rows request r inserted
RowsBy(r) == {row \in documentProofs : row.id = r}

\* the topic entries that carry a proof message for the hash
EntriesFor(documentHash) ==
    {i \in 1..Len(hcsLog) : /\ hcsLog[i].payload.json
                            /\ hcsLog[i].payload.hash = documentHash}

\* request r got past apiKeyAuth and the validation of the body
WellFormed(r) == anchors[r].organization # Null /\ anchorValidate(anchors[r].body) = ""

\* C1: a DocumentProof for hash h is in the index only if the request that
\* wrote it had submitHashToHCS return, before the write, the result of a
\* submission that put the proof message for h on the topic: the row's
\* transaction id and consensus timestamp are those of that result.
C1_ProofOnlyAfterConsensus ==
    /\ \A row \in documentProofs :
         /\ row.id \in AnchorIds
         /\ LET req == anchors[row.id] IN
              /\ req.hederaResult # Null
              /\ req.body.documentHash = row.documentHash
              /\ Get(req.hederaResult).transactionId = row.hederaTransactionId
              /\ Get(req.hederaResult).consensusTimestamp = row.consensusTimestamp
              /\ \E i \in EntriesBy(row.id) :
                    hcsLog[i].payload = JSONStringify(row.documentHash, row.issuerDid,
                                                      req.body.signature)
    /\ \A r \in AnchorIds :
         (anchors[r].pc = "createProof" \/ "createDocumentProof" \in anchors[r].calls)
            => /\ anchors[r].hederaResult # Null
               /\ EntriesBy(r) # {}

\* C1 witness: a proof has been written while another request, whose
\* submission failed, wrote none.
C1_Witness ==
    /\ documentProofs # {}
    /\ \E r \in AnchorIds :
         /\ Done(anchors[r]) /\ anchors[r].status = 503
         /\ RowsBy(r) = {}

\* C2 (as claimed): of two anchor requests for the same hash that were both
\* in flight before the hash was anchored and met no failing dependency,
\* exactly one ends as a fresh success and exactly one proof message for the
\* hash is on the topic.
C2_ExactlyOneSubmission ==
    \A q, r \in AnchorIds :
        (/\ q < r
         /\ anchors[q].body.documentHash = anchors[r].body.documentHash
         /\ Done(anchors[q]) /\ Done(anchors[r])
         /\ ~anchors[r].afterSuccess
         /\ "findProofByHash" \in anchors[q].calls
         /\ "findProofByHash" \in anchors[r].calls
         /\ anchors[q].status # 503 /\ anchors[r].status # 503)
        => /\ Cardinality({x \in {q, r} : anchors[x].status = 201}) = 1
           /\ Cardinality(EntriesFor(anchors[q].body.documentHash)) = 1

\* C3 (as claimed): a request whose insert the unique index rejects answers
\* 409 with the stored proof of the winner, as the duplicate lookup would.
C3_LoserGetsConflict ==
    \A r \in AnchorIds :
        (/\ Done(anchors[r])
         /\ "createDocumentProof" \in anchors[r].calls
         /\ RowsBy(r) = {})
        => /\ anchors[r].status = 409
           /\ anchors[r].proof = Some(conflictBody(Get(findProofByHash(anchors[r].body.documentHash))))

\* C4: an anchor request for h that arrives after an anchor request for h
\* was answered 201, and that passes the signature and ownership checks,
\* answers 409 with the stored proof, submits nothing to the topic and
\* writes nothing to the index; the stored proof is the one the first
\* request wrote and reported.
C4_SecondAnchorConflicts ==
    \A r \in AnchorIds :
        (anchors[r].afterSuccess /\ "findProofByHash" \in anchors[r].calls)
        => /\ Done(anchors[r])
           /\ anchors[r].status = 409
           /\ "submitHashToHCS" \notin anchors[r].calls
           /\ "createDocumentProof" \notin anchors[r].calls
           /\ EntriesBy(r) = {} /\ RowsBy(r) = {}
           /\ \E row \in documentProofs :
                /\ row.documentHash = anchors[r].body.documentHash
                /\ anchors[r].proof = Some(conflictBody(row))
                /\ row.id < r
                /\ anchors[row.id].status = 201
                /\ anchors[row.id].proof = Some(proofBody(row))

\* C4 witness: a request that arrived after a successful anchor of its hash
\* has run its duplicate lookup.
C4_Witness ==
    \E r \in AnchorIds :
        /\ anchors[r].afterSuccess /\ "findProofByHash" \in anchors[r].calls
        /\ anchors[r].status = 409

\* the key of the DID document a verify request resolved
ResolvedKey(req) == Get(FindEd25519Method(Get(req.didDocument))).key

\* C5: a verify request answers VERIFIED_ON_CHAIN only if, in that request,
\* the mirror returned a message of the topic for the hash and the signature
\* of that message is a signature of the hash under the key of the DID
\* document resolved in that request for the message's did.
C5_VerifiedOnlyByReverification ==
    \A v \in VerifyIds :
        verifies[v].outcome = "VERIFIED_ON_CHAIN"
        => /\ verifies[v].proof # Null
           /\ verifies[v].hcsMessage # Null
           /\ verifies[v].messageContent # Null
           /\ LET req == verifies[v]
                  messageContent == Get(req.messageContent)
              IN  /\ messageContent.hash = req.documentHash
                  /\ \E i \in 1..Len(hcsLog) : JSONParse(hcsLog[i].payload) = Some(messageContent)
                  /\ req.isValid
                  /\ req.didDocument # Null
                  /\ FindEd25519Method(Get(req.didDocument)) # Null
                  /\ PublicKeyVerify(ResolvedKey(req),
                                     BufferFromHex(messageContent.hash),
                                     BufferFromHex(messageContent.signature))
                  /\ Get(req.response).signature = messageContent.signature

\* C5 witness: a verify request has answered VERIFIED_ON_CHAIN.
C5_Witness ==
    \E v \in VerifyIds : verifies[v].outcome = "VERIFIED_ON_CHAIN"

\* the did of the request that anchored the hash
AnchoredBy(documentHash, did) ==
    \E q \in AnchorIds :
        /\ anchors[q].status = 201
        /\ anchors[q].body.documentHash = documentHash
        /\ anchors[q].body.did = did

VerifyRan(v) == Done(verifies[v]) /\ IsSha256Hex(verifies[v].documentHash)

BoundElsewhere(r) ==
    LET owner == organizationByDid(anchors[r].body.did) IN
    owner = Null \/ Get(owner).id # Get(anchors[r].organization).id

\* C7: a well-formed anchor request whose did is bound to another
\* organization than the authenticated one, or to none, never submits to the
\* topic and never writes to the index, whether or not its signature is
\* valid, and it is answered 403.
C7_ForeignDidNeverAnchors ==
    \A r \in AnchorIds :
        (WellFormed(r) /\ BoundElsewhere(r))
        => /\ anchors[r].pc \notin {"findProof", "submit", "createProof"}
           /\ "submitHashToHCS" \notin anchors[r].calls
           /\ "createDocumentProof" \notin anchors[r].calls
           /\ EntriesBy(r) = {} /\ RowsBy(r) = {}
           /\ Done(anchors[r]) => anchors[r].status = 403

\* C7 witness: a request with a valid signature for the did of another
\* organization has been answered 403 by the ownership check.
C7_Witness ==
    \E r \in AnchorIds :
        /\ WellFormed(r) /\ BoundElsewhere(r)
        /\ anchors[r].isValid
        /\ organizationByDid(anchors[r].body.did) # Null
        /\ Done(anchors[r]) /\ anchors[r].status = 403
        /\ anchors[r].reason = "did_of_other_organization"

\* C8: an anchor request answered 403 has put nothing on the topic and
\* written nothing to the index.
C8_ForbiddenHasNoEffect ==
    \A r \in AnchorIds :
        (Done(anchors[r]) /\ anchors[r].status = 403)
        => /\ EntriesBy(r) = {} /\ RowsBy(r) = {}
           /\ "submitHashToHCS" \notin anchors[r].calls
           /\ "createDocumentProof" \notin anchors[r].calls

\* C8 witness: one request was answered 403 for its signature and another
\* for the ownership of its did.
C8_Witness ==
    \E q, r \in AnchorIds :
        /\ anchors[q].status = 403 /\ anchors[q].reason = "signature_invalid"
        /\ anchors[r].status = 403 /\ anchors[r].reason = "did_of_other_organization"

\* C9 (as claimed): an authenticated anchor request whose documentHash is
\* not 64 hex characters makes no call to the DID network, the organization
\* table, the index or the topic, and is answered 400.
C9_MalformedHashRejectedFirst ==
    \A r \in AnchorIds :
        (anchors[r].organization # Null /\ ~IsSha256Hex(anchors[r].body.documentHash))
        => /\ anchors[r].calls = {}
           /\ Done(anchors[r]) => anchors[r].status = 400

C12_RegistryIsNotAGate ==
    \A v \in VerifyIds :
        /\ verifies[v].registry # ""
             => /\ verifies[v].isValid
                /\ verifies[v].status = 200
                /\ verifies[v].outcome = "VERIFIED_ON_CHAIN"
                /\ verifies[v].response # Null
                /\ verifies[v].registry \in {"unconfigured", "error", "untrusted"}
                     => ~verifies[v].isTrusted
                /\ verifies[v].isTrusted <=> verifies[v].registry = "trusted"
        /\ (Done(verifies[v]) /\ verifies[v].isValid)
             => /\ verifies[v].registry \in RegistryOutcomes
                /\ verifies[v].outcome = "VERIFIED_ON_CHAIN"

\* C12 witness: a verify request met a failing registry and answered
\* VERIFIED_ON_CHAIN with isTrustedIssuer false.
C12_Witness ==
    \E v \in VerifyIds :
        /\ verifies[v].registry = "error"
        /\ verifies[v].status = 200
        /\ verifies[v].outcome = "VERIFIED_ON_CHAIN"
        /\ ~verifies[v].isTrusted

\* the last call, when it is a call of the service
CallOf(service) == serviceCall # Null /\ Get(serviceCall).service = service

\* the document a call of verifySignature got from the resolver, if any
ResolvedDocument(c) == c.didDocument # Null /\ c.didDocument # Thrown

\* C13: verifySignature never throws: every call returns true or false, and
\* it returns false when the resolution of the DID throws or yields no
\* document, when the document has no verification method or no Ed25519
\* method, when the key of the method cannot be decoded, when the hash is
\* not 32 bytes and when the signature is not 64 bytes.
C13_VerifierNeverThrows ==
    CallOf("verifySignature")
    => LET c == Get(serviceCall) IN
       /\ c.outcome \in {"true", "false"}
       /\ ~ResolvedDocument(c) => c.outcome = "false"
       /\ (ResolvedDocument(c) /\ FindEd25519Method(Get(c.didDocument)) = Null)
            => c.outcome = "false"
       /\ (/\ ResolvedDocument(c)
           /\ FindEd25519Method(Get(c.didDocument)) # Null
           /\ ~Get(FindEd25519Method(Get(c.didDocument))).wellFormed)
            => c.outcome = "false"
       /\ BufferFromHex(c.documentHashHex).length # HashBytes => c.outcome = "false"
       /\ BufferFromHex(c.signatureHex).length # SignatureBytes => c.outcome = "false"

\* C13 witness: the resolver threw in a call with a well-formed hash and
\* signature, and the call returned false.
C13_Witness ==
    /\ CallOf("verifySignature")
    /\ Get(serviceCall).didDocument = Thrown
    /\ Get(serviceCall).documentHashHex = H1
    /\ Get(serviceCall).signatureHex = SignHex("kA", BufferFromHex(H1))
    /\ Get(serviceCall).outcome = "false"

\* the call resolved a document whose Ed25519 key decodes, for a 32-byte hash
Resolvable(c) ==
    /\ IsHederaDid(c.did) /\ ResolvedDocument(c)
    /\ FindEd25519Method(Get(c.didDocument)) # Null
    /\ Get(FindEd25519Method(Get(c.didDocument))).wellFormed
    /\ IsSha256Hex(c.documentHashHex)

\* C14: for a call with a resolvable identity, whose document gives the
\* Ed25519 key k, and a 32-byte hash: verifySignature returns true when the
\* signature is the signature of the hash under k, false when the signature
\* is that signature with one bit flipped, and false when the hash is the
\* signed hash with one bit flipped.
C14_SignThenVerify ==
    (CallOf("verifySignature") /\ Resolvable(Get(serviceCall)))
    => LET c == Get(serviceCall)
           k == Get(FindEd25519Method(Get(c.didDocument))).key
           signed == SignHex(k, BufferFromHex(c.documentHashHex))
       IN  /\ c.signatureHex = signed => c.outcome = "true"
           /\ \A i \in SignatureBitPositions :
                c.signatureHex = FlipBit(signed, i) => c.outcome = "false"
           /\ \A i \in HashBitPositions :
                c.signatureHex = SignHex(k, BufferFromHex(FlipBit(c.documentHashHex, i)))
                    => c.outcome = "false"
           /\ c.outcome = "true" => c.signatureHex = signed

\* C14 witness: the signature of the hash under the key of the identity,
\* with its last bit flipped, was rejected.
C14_Witness ==
    /\ CallOf("verifySignature")
    /\ Resolvable(Get(serviceCall))
    /\ Get(serviceCall).did = DidB
    /\ Get(serviceCall).signatureHex
         = FlipBit(SignHex("kB", BufferFromHex(Get(serviceCall).documentHashHex)),
                   SignatureBytes * 8 - 1)
    /\ Get(serviceCall).outcome = "false"

\* the Ed25519 key of the document the DID network holds for the did now
CurrentKey(did) ==
    IF did \in DOMAIN didDocuments /\ FindEd25519Method(didDocuments[did]) # Null
    THEN Some(Get(FindEd25519Method(didDocuments[did])).key)
    ELSE Null

\* the key a signature was made with
SignerOf(signatureHex) == signatureHex.content.signer

\* C15: whenever the signature check of an anchor or of a verify request
\* accepts a signature, the key that made it is the key the DID network holds
\* for the did at that moment: after a rotation, a signature made with the
\* old key is rejected, also by a verify request for a hash that was
\* anchored before the rotation.  An anchor request resolves the did in its
\* own check.
C15_LiveKeyDecides ==
    [][/\ \A r \in AnchorIds :
            (anchors[r].pc = "verifySignature" /\ anchors'[r].pc # "verifySignature")
            => /\ "resolveDID" \in anchors'[r].calls
               /\ anchors'[r].isValid
                    => CurrentKey(anchors[r].body.did)
                         = Some(SignerOf(anchors[r].body.signature))
       /\ \A v \in VerifyIds :
            (verifies[v].pc = "verifySignature" /\ verifies'[v].isValid)
            => CurrentKey(Get(verifies[v].messageContent).did)
                 = Some(SignerOf(Get(verifies[v].messageContent).signature))
      ]_vars

\* C15 witness: a hash was anchored with a signature made with the first key
\* of its did; after the rotation of the key, a verify request for the hash
\* resolved the new key and answered NOT_VERIFIED.
C15_Witness ==
    \E v \in VerifyIds :
        /\ verifies[v].proof # Null
        /\ verifies[v].reason = "signature_failed"
        /\ verifies[v].outcome = "NOT_VERIFIED"
        /\ verifies[v].didDocument = Some(<<Ed25519Method("kA2")>>)
        /\ SignerOf(Get(verifies[v].messageContent).signature) = "kA"
        /\ AnchoredBy(verifies[v].documentHash, DidA)

\* the submission of request r failed: submitHashToHCS was called and threw
SubmissionFailed(r) ==
    "submitHashToHCS" \in anchors[r].calls /\ anchors[r].hederaResult = Null

C17_RejectedIsDistinct ==
    CallOf("submitHashToHCS")
    => LET c == Get(serviceCall) IN
       /\ c.returned <=> c.outcome = "success"
       /\ ~c.returned => c.error # Null
       /\ c.outcome = "rejected" => Get(c.error).name # submitError("network").name

\* the answer to a verify request for a hash that was never anchored
NeverAnchoredResponse ==
    [httpStatus |-> 200, status |-> "NOT_VERIFIED",
     message |-> verifyMessage("not_anchored"), proof |-> Null]

\* C18 (as claimed): every NOT_VERIFIED answer is the answer a hash that was
\* never anchored gets: same HTTP status, same status, same message, no
\* proof.
C18_NotVerifiedIsOpaque ==
    \A v \in VerifyIds :
        (Done(verifies[v]) /\ verifies[v].outcome = "NOT_VERIFIED")
        => ResponseBody(verifies[v]) = NeverAnchoredResponse

\* C19: the index never holds two rows for one hash; a request whose insert
\* the unique index rejected wrote no row, and the row of the hash is still
\* the one its writer inserted and reported.
C19_OneProofPerHash ==
    /\ \A a, b \in documentProofs : a.documentHash = b.documentHash => a = b
    /\ \A r \in AnchorIds :
         ("createDocumentProof" \in anchors[r].calls /\ RowsBy(r) = {})
         => \E row \in documentProofs :
              /\ row.documentHash = anchors[r].body.documentHash
              /\ row.id # r
              /\ anchors[row.id].status = 201
              /\ anchors[row.id].proof = Some(proofBody(row))

\* C19 witness: two requests called createDocumentProof for the same hash
\* and the index holds one row.
C19_Witness ==
    \E q, r \in AnchorIds :
        /\ q # r
        /\ "createDocumentProof" \in anchors[q].calls
        /\ "createDocumentProof" \in anchors[r].calls
        /\ anchors[q].body.documentHash = anchors[r].body.documentHash
        /\ Cardinality(documentProofs) = 1

\* C20: no step of an anchor or verify request, nor of the environment,
\* changes or removes a row of the index: every row stays as it was
\* inserted.
C20_ProofsAreImmutable ==
    [][\A row \in documentProofs : row \in documentProofs']_vars

\* C20 witness: after a row was inserted, a verify request read it and was
\* answered, and the row is in the index as it was read.
C20_Witness ==
    \E row \in documentProofs :
        \E v \in VerifyIds : Done(verifies[v]) /\ verifies[v].proof = Some(row)

---------------------------------------------------------------------------

\* C30: in the IssuerRegistry contract, after any sequence of calls by any
\* callers, checkTrusted(did) is true exactly when the last call that
\* changed the flag of the did was addIssuer, and every such call was made by
\* the owner; a call by another account, addIssuer on a trusted did and
\* removeIssuer on an untrusted did revert, no other addIssuer or
\* removeIssuer does, and a reverted call leaves every trust flag as it was.
C30_RegistryFollowsOwner ==
    /\ \A d \in HederaDids :
         /\ checkTrusted(issuerRegistry, d) = (issuerRegistry.lastChange[d].fn = "addIssuer")
         /\ issuerRegistry.lastChange[d].fn # "none"
               => issuerRegistry.lastChange[d].sender = issuerRegistry.owner
    /\ issuerRegistry.lastCall # Null =>
         LET c == Get(issuerRegistry.lastCall)
         IN  /\ c.fn = "addIssuer" =>
                  (c.reverted <=> (c.sender # issuerRegistry.owner \/ c.before[c.did]))
             /\ c.fn = "removeIssuer" =>
                  (c.reverted <=> (c.sender # issuerRegistry.owner \/ ~c.before[c.did]))
             /\ c.fn = "checkTrusted" => ~c.reverted /\ c.returned = c.before[c.did]
             /\ (c.reverted \/ c.fn = "checkTrusted") => issuerRegistry.isTrusted = c.before
             /\ (c.fn = "addIssuer" /\ ~c.reverted) =>
                  issuerRegistry.isTrusted = [c.before EXCEPT ![c.did] = TRUE]
             /\ (c.fn = "removeIssuer" /\ ~c.reverted) =>
                  issuerRegistry.isTrusted = [c.before EXCEPT ![c.did] = FALSE]

\* The owner added DidA and removed it again, DidB is trusted, and the last
\* call, by another account, reverted.
C30_Witness ==
    /\ issuerRegistry.lastChange[DidA].fn = "removeIssuer"
    /\ checkTrusted(issuerRegistry, DidB)
    /\ issuerRegistry.lastCall # Null
    /\ Get(issuerRegistry.lastCall).reverted
    /\ Get(issuerRegistry.lastCall).sender # issuerRegistry.owner

---------------------------------------------------------------------------

\* C21: across any sequence of signup, organization-DID and submit-creation
\* requests, the did of an organization is set once and never changes
\* afterwards, and no did is bound to more than one organization.
C21_IdentitySetOnce ==
    [][/\ \A o \in DOMAIN organizations :
            organizations[o] # Null => organizations'[o] = organizations[o]
       /\ \A o1, o2 \in DOMAIN organizations' :
            (organizations'[o1] # Null /\ organizations'[o1] = organizations'[o2]) => o1 = o2
      ]_vars

---------------------------------------------------------------------------

---------------------------------------------------------------------------

\* C24: no anchor or verify request writes a signature in full to the
\* console, and of a document hash it writes at most a truncated prefix.
C24_ConsoleShowsNoSecret ==
    /\ \A r \in AnchorIds :
         \A line \in anchorControllerLog(anchors[r]) \cup submitHashToHCSLog(anchors[r]) :
            line.shown = "prefix" /\ line.field # "signature"
    /\ \A v \in VerifyIds :
         \A line \in verifyControllerLog(verifies[v]) :
            line.shown = "prefix" /\ line.field # "signature"

---------------------------------------------------------------------------

\* a step of anchor request r, of verify request v
AnchorStep(r) ==
    \/ AnchorVerifySignature(r) \/ AnchorOwnership(r) \/ AnchorFindProof(r)
    \/ AnchorSubmit(r) \/ AnchorCreateProof(r)

VerifyStep(v) ==
    \/ VerifyGetProof(v) \/ VerifyMirror(v) \/ VerifyVerifySignature(v)
    \/ VerifyOrganization(v) \/ VerifyRegistry(v)

\* C23: each external call is bounded by a timeout: also when a
\* collaborator never answers, a request that has not been answered yet
\* always has a step left to take (its answer, or the expiry of the call it
\* waits for), and so it ends with a response.
C23_NoRequestWaitsForever ==
    /\ \A r \in AnchorIds : Done(anchors[r]) \/ ENABLED AnchorStep(r)
    /\ \A v \in VerifyIds : Done(verifies[v]) \/ ENABLED VerifyStep(v)

---------------------------------------------------------------------------

\* C25: the stages of an anchor request run in one order and none is
\* skipped: a request arrives at the signature check; it reaches the
\* ownership lookup only from the signature check, with a valid signature;
\* the duplicate lookup only from an ownership check that passed; the
\* consensus submission only from a duplicate lookup that finds no proof for
\* the hash; the index write only from a submission that returned a result.
\* Only the submission step of a request appends its message to the topic and
\* only its index-write step inserts its row.
C25_StagesInOrder ==
    [][/\ \A r \in AnchorIds :
            LET a == anchors[r]
                b == anchors'[r]
            IN  /\ b.pc = a.pc \/ b.pc = "done"
                   \/ /\ a.pc = "verifySignature" /\ b.pc = "ownership"
                      /\ b.isValid /\ "resolveDID" \in b.calls
                      /\ b.calls \cap {"organization.findUnique", "findProofByHash",
                                       "submitHashToHCS", "createDocumentProof"} = {}
                   \/ /\ a.pc = "ownership" /\ b.pc = "findProof"
                      /\ a.isValid
                      /\ ownershipCheck(organizationByDid(a.body.did), Get(a.organization),
                                        a.body.did) = ""
                   \/ /\ a.pc = "findProof" /\ b.pc = "submit"
                      /\ a.isValid /\ "organization.findUnique" \in a.calls
                      /\ findProofByHash(a.body.documentHash) = Null
                   \/ /\ a.pc = "submit" /\ b.pc = "createProof"
                      /\ "findProofByHash" \in a.calls
                      /\ b.hederaResult # Null
                /\ (\E i \in 1..Len(hcsLog') : i > Len(hcsLog) /\ hcsLog'[i].by = r)
                      => a.pc = "submit" /\ a.isValid /\ "findProofByHash" \in a.calls
                /\ (\E row \in documentProofs' \ documentProofs : row.id = r)
                      => a.pc = "createProof" /\ EntriesBy(r) # {}
       /\ \A r \in 1..Len(anchors') :
            r > Len(anchors) =>
                /\ anchors'[r].pc \in {"verifySignature", "done"}
                /\ anchors'[r].calls = {} /\ ~anchors'[r].isValid
      ]_vars

\* An anchor request went through all five stages and was answered 201.
C25_Witness ==
    \E r \in AnchorIds :
        /\ anchors[r].status = 201
        /\ anchors[r].calls = {"resolveDID", "organization.findUnique", "findProofByHash",
                               "submitHashToHCS", "createDocumentProof"}

---------------------------------------------------------------------------

\* The messages on the topic that anchor requests submitted for the hash.
SubmittedFor(documentHash) ==
    {i \in 1..Len(hcsLog) : /\ hcsLog[i].by \in AnchorIds
                            /\ anchors[hcsLog[i].by].body.documentHash = documentHash}

---------------------------------------------------------------------------

\* The number of messages that follow entry i on the topic.
LaterMessages(log, i) == TopicSize(log) - TopicSize(SubSeq(log, 1, i))

\* The entries a lookup of the hash can return: JSON messages with that hash
\* among the newest MirrorPageLimit messages.
RecentMatches(log, hash) ==
    {i \in 1..Len(log) : /\ LaterMessages(log, i) < MirrorPageLimit
                         /\ log[i].payload.json
                         /\ log[i].payload.hash = hash}

\* C27: the mirror lookup returns the newest message among the most recent
\* MirrorPageLimit messages of the topic that parses as JSON and carries the
\* requested hash, whatever unparseable or other messages are around it, and
\* null when there is none: in particular for a proof that 100 or more later
\* messages follow, and when the answer carries no message list.  It throws
\* only when the query itself fails.
C27_NewestMatchOfLastPage ==
    CallOf("findMessageByHash") =>
        LET c == Get(serviceCall)
            matches == RecentMatches(c.log, c.hash)
        IN  /\ c.threw = (c.outcome = "error")
            /\ (c.outcome = "ok" /\ matches # {}) =>
                 LET newest == CHOOSE i \in matches : \A j \in matches : j <= i
                 IN  c.result = Some([consensus_timestamp |-> TopicSize(SubSeq(c.log, 1, newest)),
                                      message |-> Base64Encode(c.log[newest].payload)])
            /\ (c.outcome # "ok" \/ matches = {}) => c.result = Null

\* The topic held a proof for H1, MirrorPageLimit - 2 messages that are not
\* JSON and a proof for another hash: the lookup skipped those and returned
\* the proof; one more message has arrived since, and the proof is now out
\* of reach.
C27_Witness ==
    /\ CallOf("findMessageByHash")
    /\ Get(serviceCall).outcome = "ok" /\ Get(serviceCall).hash = H1
    /\ Get(serviceCall).result # Null
    /\ Get(Get(serviceCall).result).consensus_timestamp = 1
    /\ TopicSize(Get(serviceCall).log) = MirrorPageLimit
    /\ RecentMatches(hcsLog, H1) = {}

---------------------------------------------------------------------------

\* C28: in every VERIFIED_ON_CHAIN answer the did and the consensus
\* timestamp of the proof are those of the recovered message whose signature
\* was verified and whose did the registry was asked about.
C28_ProofIsOfOneAnchoring ==
    \A v \in VerifyIds :
        verifies[v].outcome = "VERIFIED_ON_CHAIN" =>
            /\ Get(verifies[v].response).did = Get(verifies[v].messageContent).did
            /\ Get(verifies[v].response).consensusTimestamp
                  = Get(verifies[v].hcsMessage).consensus_timestamp
            /\ Get(verifies[v].response).signature = Get(verifies[v].messageContent).signature

\* The state the race leaves behind: the row of DidA in the index, and on the
\* topic the message of DidA followed by the message of DidB.
RaceOutcome ==
    /\ \E r1, r2 \in AnchorIds :
         /\ anchors[r1].status = 201 /\ anchors[r1].body.did = DidA
         /\ Done(anchors[r2]) /\ anchors[r2].body.did = DidB
         /\ EntriesBy(r1) # {} /\ EntriesBy(r2) # {}
         /\ \A i \in EntriesBy(r1), j \in EntriesBy(r2) : i < j
    /\ \E row \in documentProofs : row.issuerDid = DidA /\ row.consensusTimestamp = 1

---------------------------------------------------------------------------

\* C29: a verify request is read-only: the arrival and every step of a
\* verify request leave the index, the topic, the organizations and every
\* anchor request as they are.
C29_VerifyIsReadOnly ==
    [][verifies' # verifies
          => /\ documentProofs' = documentProofs
             /\ hcsLog' = hcsLog
             /\ organizations' = organizations
             /\ anchors' = anchors
      ]_vars

\* A verify request ran to its answer while an anchor request for the same
\* hash was under way, and the anchor request was answered 201 all the same.
C29_Witness ==
    \E v \in VerifyIds, r \in AnchorIds :
        /\ Done(verifies[v]) /\ verifies[v].reason = "not_anchored"
        /\ ~verifies[v].beforeAnchor
        /\ anchors[r].body.documentHash = verifies[v].documentHash
        /\ anchors[r].status = 201

====
